---- MODULE Spec2Model ----
(***************************************************************************)
(* Model of src/lib.rs: a fixed-capacity hash table with separate          *)
(* chaining.  HashMap owns `curr_size` and `array`, an array of            *)
(* DEFAULT_MAX_SIZE optional chain heads; a chain is a KeyValue whose      *)
(* `next` is an optional owned KeyValue.                                   *)
(*                                                                         *)
(* Option<T> is a sequence of length 0 (None) or 1 (Some(x)); a KeyValue   *)
(* is a record [key, value, next], next being an Option<KeyValue>, so a    *)
(* chain is a nested record exactly as the Box ownership tree is.          *)
(*                                                                         *)
(* DefaultHasher is a deterministic function K -> u64 whose values are     *)
(* opaque here (SipHash on 64 bits).  It is modelled by `hasher`, a        *)
(* function chosen once in Init among all functions Keys -> HashVals and   *)
(* never changed, so that every placement of the keys is covered: equal    *)
(* hashes, different hashes in one slot, different slots.                  *)
(***************************************************************************)
EXTENDS Integers, Sequences, FiniteSets

\* src/lib.rs:14
DEFAULT_MAX_SIZE == 256

\* Bounds of the model.
NumKeys == 3
NumValues == 2

Keys == 1..NumKeys
Values == 1..NumValues

\* Representative u64 hash values: 5 and 261 differ but reduce to slot 5,
\* 6 reduces to slot 6.
HashVals == {5, 261, 6}

VARIABLES
    hasher,      \* the hash function computed by DefaultHasher
    curr_size,   \* HashMap.curr_size
    array,       \* HashMap.array
    panicked,    \* an unwrap() met None
    reference    \* a reference partial map Keys -> Option<Values> run side by side

vars == <<hasher, curr_size, array, panicked, reference>>

----
\* Option<T>

None == <<>>
Some(x) == <<x>>
is_some(o) == o # None
unwrap(o) == o[1]

----
\* The program

\* fn hash_key
hash_key(key) == hasher[key]

\* (hash % DEFAULT_MAX_SIZE) as usize
position_of(key) == hash_key(key) % DEFAULT_MAX_SIZE

\* KeyValue::new
KeyValue_new(key, value) == [key |-> key, value |-> value, next |-> None]

\* const INIT
INIT == None

\* new leaving a stale count in curr_size
HashMap_new_count == [curr_size |-> 1, array |-> [i \in 0..(DEFAULT_MAX_SIZE - 1) |-> INIT]]

\* HashMap::new
HashMap_new == [curr_size |-> 0, array |-> [i \in 0..(DEFAULT_MAX_SIZE - 1) |-> INIT]]

\* insert_new_value building a new array around the new entry
insert_new_value_rebuild(self, key, value, position) ==
    LET new_entry == KeyValue_new(key, value) IN
    [curr_size |-> self.curr_size + 1,
     array |-> [i \in 0..(DEFAULT_MAX_SIZE - 1) |->
                   IF i = position THEN Some(new_entry) ELSE INIT]]

\* insert_new_value forgetting `self.curr_size += 1`
insert_new_value_nocount(self, key, value, position) ==
    LET new_entry == KeyValue_new(key, value) IN
    [curr_size |-> self.curr_size,
     array |-> [self.array EXCEPT ![position] = Some(new_entry)]]

\* HashMap::insert_new_value
insert_new_value(self, key, value, position) ==
    LET new_entry == KeyValue_new(key, value) IN
    [curr_size |-> self.curr_size + 1,
     array |-> [self.array EXCEPT ![position] = Some(new_entry)]]

\* the loop putting a new node in place of the matched one
RECURSIVE link_walk_replace(_, _, _)
link_walk_replace(current_kv, key, value) ==
    IF is_some(current_kv.next)
    THEN LET node == unwrap(current_kv.next) IN
         IF node.key = key
         THEN [kv |-> [current_kv EXCEPT !.next = Some(KeyValue_new(key, value))],
               ret |-> Some(node.value), linked |-> FALSE]
         ELSE LET r == link_walk_replace(node, key, value) IN
              [kv |-> [current_kv EXCEPT !.next = Some(r.kv)],
               ret |-> r.ret, linked |-> r.linked]
    ELSE [kv |-> [current_kv EXCEPT !.next = Some(KeyValue_new(key, value))],
          ret |-> None, linked |-> TRUE]

\* the loop counting an update as a new entry
RECURSIVE link_walk_count(_, _, _)
link_walk_count(current_kv, key, value) ==
    IF is_some(current_kv.next)
    THEN LET node == unwrap(current_kv.next) IN
         IF node.key = key
         THEN [kv |-> [current_kv EXCEPT !.next = Some([node EXCEPT !.value = value])],
               ret |-> Some(node.value), linked |-> TRUE]
         ELSE LET r == link_walk_count(node, key, value) IN
              [kv |-> [current_kv EXCEPT !.next = Some(r.kv)],
               ret |-> r.ret, linked |-> r.linked]
    ELSE [kv |-> [current_kv EXCEPT !.next = Some(KeyValue_new(key, value))],
          ret |-> None, linked |-> TRUE]

\* the loop without its `node.key == key` test: always appends
RECURSIVE link_walk_nomatch(_, _, _)
link_walk_nomatch(current_kv, key, value) ==
    IF is_some(current_kv.next)
    THEN LET node == unwrap(current_kv.next)
             r == link_walk_nomatch(node, key, value) IN
         [kv |-> [current_kv EXCEPT !.next = Some(r.kv)],
          ret |-> r.ret, linked |-> r.linked]
    ELSE [kv |-> [current_kv EXCEPT !.next = Some(KeyValue_new(key, value))],
          ret |-> None, linked |-> TRUE]

\* The `while current_kv.next.is_some()` loop of update_or_link_new_val and
\* the append after it, from `current_kv` on.  Yields current_kv as the loop
\* leaves it, the value returned, and whether a new entry was linked.
RECURSIVE link_walk(_, _, _)
link_walk(current_kv, key, value) ==
    IF is_some(current_kv.next)
    THEN LET node == unwrap(current_kv.next) IN
         IF node.key = key
         THEN [kv |-> [current_kv EXCEPT !.next = Some([node EXCEPT !.value = value])],
               ret |-> Some(node.value), linked |-> FALSE]
         ELSE LET r == link_walk(node, key, value) IN
              [kv |-> [current_kv EXCEPT !.next = Some(r.kv)],
               ret |-> r.ret, linked |-> r.linked]
    ELSE [kv |-> [current_kv EXCEPT !.next = Some(KeyValue_new(key, value))],
          ret |-> None, linked |-> TRUE]

\* update_or_link_new_val matching the head by hash instead of by key
update_or_link_new_val_byhash(self, key, value, position) ==
    IF ~is_some(self.array[position])
    THEN [self |-> self, ret |-> None, panic |-> TRUE]
    ELSE LET current_kv == unwrap(self.array[position]) IN
         IF hash_key(current_kv.key) = hash_key(key)
         THEN [self |-> [self EXCEPT !.array[position] =
                            Some([current_kv EXCEPT !.value = value])],
               ret |-> Some(current_kv.value), panic |-> FALSE]
         ELSE LET r == link_walk(current_kv, key, value) IN
              [self |-> [curr_size |-> IF r.linked THEN self.curr_size + 1
                                                   ELSE self.curr_size,
                         array |-> [self.array EXCEPT ![position] = Some(r.kv)]],
               ret |-> r.ret, panic |-> FALSE]

\* HashMap::update_or_link_new_val
update_or_link_new_val(self, key, value, position) ==
    IF ~is_some(self.array[position])
    THEN [self |-> self, ret |-> None, panic |-> TRUE]
    ELSE LET current_kv == unwrap(self.array[position]) IN
         IF current_kv.key = key
         THEN [self |-> [self EXCEPT !.array[position] =
                            Some([current_kv EXCEPT !.value = value])],
               ret |-> Some(current_kv.value), panic |-> FALSE]
         ELSE LET r == link_walk(current_kv, key, value) IN
              [self |-> [curr_size |-> IF r.linked THEN self.curr_size + 1
                                                   ELSE self.curr_size,
                         array |-> [self.array EXCEPT ![position] = Some(r.kv)]],
               ret |-> r.ret, panic |-> FALSE]

\* insert reducing the hash modulo DEFAULT_MAX_SIZE - 1
insert_modulus(self, key, value) ==
    LET hash == hash_key(key)
        position == hash % (DEFAULT_MAX_SIZE - 1) IN
    IF is_some(self.array[position])
    THEN update_or_link_new_val(self, key, value, position)
    ELSE [self |-> insert_new_value(self, key, value, position),
          ret |-> None, panic |-> FALSE]

\* insert with its `is_some()` test inverted: the walk starts on an empty slot
insert_inverted(self, key, value) ==
    LET hash == hash_key(key)
        position == hash % DEFAULT_MAX_SIZE IN
    IF ~is_some(self.array[position])
    THEN update_or_link_new_val(self, key, value, position)
    ELSE [self |-> insert_new_value(self, key, value, position),
          ret |-> None, panic |-> FALSE]

\* HashMap::insert
insert(self, key, value) ==
    LET hash == hash_key(key)
        position == hash % DEFAULT_MAX_SIZE IN
    IF is_some(self.array[position])
    THEN update_or_link_new_val(self, key, value, position)
    ELSE [self |-> insert_new_value(self, key, value, position),
          ret |-> None, panic |-> FALSE]

\* the loop giving up after the first successor
get_walk_first(kv, key) ==
    IF is_some(kv.next)
    THEN LET node == unwrap(kv.next) IN
         IF node.key = key THEN Some(node.value) ELSE None
    ELSE None

\* The `while let Some(node) = kv.next.as_ref()` loop of get, from `kv` on.
RECURSIVE get_walk(_, _)
get_walk(kv, key) ==
    IF is_some(kv.next)
    THEN LET node == unwrap(kv.next) IN
         IF node.key = key THEN Some(node.value) ELSE get_walk(node, key)
    ELSE None

\* get looking at the chain head only
get_headonly(self, key) ==
    LET hash_val == hash_key(key)
        position == hash_val % DEFAULT_MAX_SIZE IN
    IF is_some(self.array[position])
    THEN LET kv == unwrap(self.array[position]) IN
         IF kv.key = key THEN Some(kv.value) ELSE None
    ELSE None

\* HashMap::get
get(self, key) ==
    LET hash_val == hash_key(key)
        position == hash_val % DEFAULT_MAX_SIZE IN
    IF is_some(self.array[position])
    THEN LET kv == unwrap(self.array[position]) IN
         IF kv.key = key THEN Some(kv.value) ELSE get_walk(kv, key)
    ELSE None

\* the loop unlinking the matched node together with its successors
RECURSIVE remove_walk_droptail(_, _)
remove_walk_droptail(kv, key) ==
    IF is_some(kv.next)
    THEN LET node == unwrap(kv.next) IN
         IF node.key = key
         THEN [kv |-> [kv EXCEPT !.next = None],
               ret |-> Some(node.value), removed |-> TRUE]
         ELSE LET r == remove_walk_droptail(node, key) IN
              [kv |-> [kv EXCEPT !.next = Some(r.kv)],
               ret |-> r.ret, removed |-> r.removed]
    ELSE [kv |-> kv, ret |-> None, removed |-> FALSE]

\* the loop decrementing curr_size when it found nothing
RECURSIVE remove_walk_miscount(_, _)
remove_walk_miscount(kv, key) ==
    IF is_some(kv.next)
    THEN LET node == unwrap(kv.next) IN
         IF node.key = key
         THEN IF is_some(node.next)
              THEN [kv |-> [kv EXCEPT !.next = Some(unwrap(node.next))],
                    ret |-> Some(node.value), removed |-> TRUE]
              ELSE [kv |-> [kv EXCEPT !.next = None],
                    ret |-> Some(node.value), removed |-> TRUE]
         ELSE LET r == remove_walk_miscount(node, key) IN
              [kv |-> [kv EXCEPT !.next = Some(r.kv)],
               ret |-> r.ret, removed |-> r.removed]
    ELSE [kv |-> kv, ret |-> None, removed |-> TRUE]

\* the loop returning the tail's value without unlinking the tail
RECURSIVE remove_walk_keeptail(_, _)
remove_walk_keeptail(kv, key) ==
    IF is_some(kv.next)
    THEN LET node == unwrap(kv.next) IN
         IF node.key = key
         THEN IF is_some(node.next)
              THEN [kv |-> [kv EXCEPT !.next = Some(unwrap(node.next))],
                    ret |-> Some(node.value), removed |-> TRUE]
              ELSE [kv |-> kv, ret |-> Some(node.value), removed |-> TRUE]
         ELSE LET r == remove_walk_keeptail(node, key) IN
              [kv |-> [kv EXCEPT !.next = Some(r.kv)],
               ret |-> r.ret, removed |-> r.removed]
    ELSE [kv |-> kv, ret |-> None, removed |-> FALSE]

\* The `while let Some(node) = kv.next.as_mut()` loop of remove, from `kv`
\* on.  Yields kv as the loop leaves it, the value returned, and whether
\* curr_size was decremented.
RECURSIVE remove_walk(_, _)
remove_walk(kv, key) ==
    IF is_some(kv.next)
    THEN LET node == unwrap(kv.next) IN
         IF node.key = key
         THEN IF is_some(node.next)
              THEN [kv |-> [kv EXCEPT !.next = Some(unwrap(node.next))],
                    ret |-> Some(node.value), removed |-> TRUE]
              ELSE [kv |-> [kv EXCEPT !.next = None],
                    ret |-> Some(node.value), removed |-> TRUE]
         ELSE LET r == remove_walk(node, key) IN
              [kv |-> [kv EXCEPT !.next = Some(r.kv)],
               ret |-> r.ret, removed |-> r.removed]
    ELSE [kv |-> kv, ret |-> None, removed |-> FALSE]

\* remove emptying the slot when the head matches, successor or not
remove_head_drop(self, key) ==
    LET hash == hash_key(key)
        position == hash % DEFAULT_MAX_SIZE IN
    IF is_some(self.array[position])
    THEN LET kv == unwrap(self.array[position]) IN
         IF kv.key = key
         THEN [self |-> [curr_size |-> self.curr_size - 1,
                         array |-> [self.array EXCEPT ![position] = None]],
               ret |-> Some(kv.value)]
         ELSE LET r == remove_walk(kv, key) IN
              [self |-> [curr_size |-> IF r.removed THEN self.curr_size - 1
                                                    ELSE self.curr_size,
                         array |-> [self.array EXCEPT ![position] = Some(r.kv)]],
               ret |-> r.ret]
    ELSE [self |-> self, ret |-> None]

\* remove forgetting `self.curr_size -= 1` when the head matches
remove_head_nocount(self, key) ==
    LET hash == hash_key(key)
        position == hash % DEFAULT_MAX_SIZE IN
    IF is_some(self.array[position])
    THEN LET kv == unwrap(self.array[position]) IN
         IF kv.key = key
         THEN IF is_some(kv.next)
              THEN [self |-> [curr_size |-> self.curr_size,
                              array |-> [self.array EXCEPT ![position] =
                                            Some(unwrap(kv.next))]],
                    ret |-> Some(kv.value)]
              ELSE [self |-> [curr_size |-> self.curr_size,
                              array |-> [self.array EXCEPT ![position] = None]],
                    ret |-> Some(kv.value)]
         ELSE LET r == remove_walk(kv, key) IN
              [self |-> [curr_size |-> IF r.removed THEN self.curr_size - 1
                                                    ELSE self.curr_size,
                         array |-> [self.array EXCEPT ![position] = Some(r.kv)]],
               ret |-> r.ret]
    ELSE [self |-> self, ret |-> None]

\* HashMap::remove
remove(self, key) ==
    LET hash == hash_key(key)
        position == hash % DEFAULT_MAX_SIZE IN
    IF is_some(self.array[position])
    THEN LET kv == unwrap(self.array[position]) IN
         IF kv.key = key
         THEN IF is_some(kv.next)
              THEN [self |-> [curr_size |-> self.curr_size - 1,
                              array |-> [self.array EXCEPT ![position] =
                                            Some(unwrap(kv.next))]],
                    ret |-> Some(kv.value)]
              ELSE [self |-> [curr_size |-> self.curr_size - 1,
                              array |-> [self.array EXCEPT ![position] = None]],
                    ret |-> Some(kv.value)]
         ELSE LET r == remove_walk(kv, key) IN
              [self |-> [curr_size |-> IF r.removed THEN self.curr_size - 1
                                                    ELSE self.curr_size,
                         array |-> [self.array EXCEPT ![position] = Some(r.kv)]],
               ret |-> r.ret]
    ELSE [self |-> self, ret |-> None]

\* clear resetting curr_size but not the array
clear_keep_array(self) ==
    [curr_size |-> 0, array |-> self.array]

\* clear resetting the array but not curr_size
clear_keep_size(self) ==
    [curr_size |-> self.curr_size, array |-> [i \in 0..(DEFAULT_MAX_SIZE - 1) |-> INIT]]

\* HashMap::clear
clear(self) ==
    [curr_size |-> 0, array |-> [i \in 0..(DEFAULT_MAX_SIZE - 1) |-> INIT]]

----
\* The nodes a call visits: the walks above, counting each node whose key
\* the call compares with its argument

\* the loop of update_or_link_new_val, from `current_kv` on
RECURSIVE link_walk_visited(_, _)
link_walk_visited(current_kv, key) ==
    IF is_some(current_kv.next)
    THEN LET node == unwrap(current_kv.next) IN
         IF node.key = key THEN 1 ELSE 1 + link_walk_visited(node, key)
    ELSE 0

\* HashMap::insert: nothing is visited in an empty slot (insert_new_value),
\* else update_or_link_new_val visits the head and walks on
insert_visited(self, key) ==
    LET hash == hash_key(key)
        position == hash % DEFAULT_MAX_SIZE IN
    IF is_some(self.array[position])
    THEN LET current_kv == unwrap(self.array[position]) IN
         IF current_kv.key = key THEN 1 ELSE 1 + link_walk_visited(current_kv, key)
    ELSE 0

\* the loop of get going on after a match
RECURSIVE get_walk_visited_all(_, _)
get_walk_visited_all(kv, key) ==
    IF is_some(kv.next)
    THEN LET node == unwrap(kv.next) IN
         1 + get_walk_visited_all(node, key)
    ELSE 0

\* the loop of get, from `kv` on
RECURSIVE get_walk_visited(_, _)
get_walk_visited(kv, key) ==
    IF is_some(kv.next)
    THEN LET node == unwrap(kv.next) IN
         IF node.key = key THEN 1 ELSE 1 + get_walk_visited(node, key)
    ELSE 0

\* HashMap::get
get_visited(self, key) ==
    LET hash_val == hash_key(key)
        position == hash_val % DEFAULT_MAX_SIZE IN
    IF is_some(self.array[position])
    THEN LET kv == unwrap(self.array[position]) IN
         IF kv.key = key THEN 1 ELSE 1 + get_walk_visited(kv, key)
    ELSE 0

\* the loop of remove, from `kv` on
RECURSIVE remove_walk_visited(_, _)
remove_walk_visited(kv, key) ==
    IF is_some(kv.next)
    THEN LET node == unwrap(kv.next) IN
         IF node.key = key THEN 1 ELSE 1 + remove_walk_visited(node, key)
    ELSE 0

\* HashMap::remove
remove_visited(self, key) ==
    LET hash == hash_key(key)
        position == hash % DEFAULT_MAX_SIZE IN
    IF is_some(self.array[position])
    THEN LET kv == unwrap(self.array[position]) IN
         IF kv.key = key THEN 1 ELSE 1 + remove_walk_visited(kv, key)
    ELSE 0

----
\* The reference map: a function Keys -> Option<Values>

ref_new == [k \in Keys |-> None]
ref_insert(m, key, value) == [map |-> [m EXCEPT ![key] = Some(value)], ret |-> m[key]]
ref_get(m, key) == m[key]
ref_remove(m, key) == [map |-> [m EXCEPT ![key] = None], ret |-> m[key]]

----
\* The state machine: one action per public call on one HashMap.  A call's
\* return value is not part of the state; the properties below read it off
\* the operator the action applies.

Self == [curr_size |-> curr_size, array |-> array]

Init ==
    /\ hasher \in [Keys -> HashVals]
    /\ curr_size = HashMap_new.curr_size
    /\ array = HashMap_new.array
    /\ panicked = FALSE
    /\ reference = ref_new

Insert(key, value) ==
    /\ ~panicked
    /\ LET r == insert(Self, key, value) IN
       /\ curr_size' = r.self.curr_size
       /\ array' = r.self.array
       /\ panicked' = r.panic
    /\ reference' = ref_insert(reference, key, value).map
    /\ UNCHANGED hasher

\* get taking the slot's chain out of the table (`take()` for `as_ref()`)
Get_take(key) ==
    /\ ~panicked
    /\ get(Self, key) \in {None} \cup {Some(v) : v \in Values}
    /\ array' = [array EXCEPT ![position_of(key)] = None]
    /\ UNCHANGED <<hasher, curr_size, panicked, reference>>

\* get takes &self: it yields an Option<&V> and the table stays as it is
Get(key) ==
    /\ ~panicked
    /\ get(Self, key) \in {None} \cup {Some(v) : v \in Values}
    /\ UNCHANGED vars

Remove(key) ==
    /\ ~panicked
    /\ LET r == remove(Self, key) IN
       /\ curr_size' = r.self.curr_size
       /\ array' = r.self.array
    /\ reference' = ref_remove(reference, key).map
    /\ UNCHANGED <<hasher, panicked>>

Clear ==
    /\ ~panicked
    /\ LET s == clear(Self) IN
       /\ curr_size' = s.curr_size
       /\ array' = s.array
    /\ reference' = ref_new
    /\ UNCHANGED <<hasher, panicked>>

Next ==
    \/ \E key \in Keys, value \in Values : Insert(key, value)
    \/ \E key \in Keys : Get(key)
    \/ \E key \in Keys : Remove(key)
    \/ Clear

Spec == Init /\ [][Next]_vars

----
\* Observations of a table, used by the properties below

Slots == 0..(DEFAULT_MAX_SIZE - 1)

\* The entries of a chain, head first, as a sequence of [key, value]
RECURSIVE ChainOf(_)
ChainOf(o) ==
    IF o = None THEN <<>>
    ELSE <<[key |-> o[1].key, value |-> o[1].value]>> \o ChainOf(o[1].next)

\* The (slot, index) places of the entries of a table
Occupied(arr) == {i \in Slots : arr[i] # None}
Places(arr) == UNION {{<<i, j>> : j \in 1..Len(ChainOf(arr[i]))} : i \in Occupied(arr)}
EntryAt(arr, p) == ChainOf(arr[p[1]])[p[2]]

\* The set of <<key, value>> pairs stored in a table
Pairs(arr) == {<<EntryAt(arr, p).key, EntryAt(arr, p).value>> : p \in Places(arr)}
StoredKeys(arr) == {kv[1] : kv \in Pairs(arr)}
Present(arr, key) == key \in StoredKeys(arr)
PresentWith(arr, key, value) == <<key, value>> \in Pairs(arr)

\* The index of the first entry for key in the chain of its slot, 0 if none
IndexOf(arr, key) ==
    LET c == ChainOf(arr[position_of(key)])
        hits == {i \in 1..Len(c) : c[i].key = key} IN
    IF hits = {} THEN 0 ELSE CHOOSE i \in hits : \A j \in hits : i <= j
ChainLen(arr, key) == Len(ChainOf(arr[position_of(key)]))

\* The number of entries over all chains
EntryCount(arr) == Cardinality(Places(arr))

\* The pairs of the reference map
RefPairs == {<<k, reference[k][1]>> : k \in {j \in Keys : reference[j] # None}}

----
\* C1  Round-trip: in every reachable state, for every key k and value v,
\* get(k) on the table left by insert(k, v) returns v, whether k was absent
\* or present before and wherever in its chain it was.
C1_RoundTrip ==
    \A k \in Keys, v \in Values :
        get(insert(Self, k, v).self, k) = Some(v)

\* a fresh key goes to the end of a chain of two other keys and is read back
C1_Witness ==
    \E k \in Keys, v \in Values :
        /\ ~Present(array, k)
        /\ ChainLen(array, k) = 2
        /\ IndexOf(insert(Self, k, v).self.array, k) = 3
        /\ get(insert(Self, k, v).self, k) = Some(v)

\* C2  Update semantics: insert(k, v2) on a key present with v1, at the head
\* or later in its chain, returns v1, get(k) is then v2, size is unchanged.
C2_Update ==
    LET stored == Pairs(array) IN
    \A k \in Keys, v1 \in Values, v2 \in Values :
        <<k, v1>> \in stored =>
            LET r == insert(Self, k, v2) IN
            /\ r.ret = Some(v1)
            /\ get(r.self, k) = Some(v2)
            /\ r.self.curr_size = curr_size

\* a different value replaces the one held by the last node of a chain of
\* three
C2_Witness ==
    \E k \in Keys, v1 \in Values, v2 \in Values :
        /\ v1 # v2
        /\ PresentWith(array, k, v1)
        /\ IndexOf(array, k) = 3
        /\ insert(Self, k, v2).ret = Some(v1)
        /\ PresentWith(insert(Self, k, v2).self.array, k, v2)

\* C3  Fresh-key insert: insert(k, v) on an absent key returns None and
\* size grows by exactly 1, for an empty slot and for an occupied one.
C3_FreshInsert ==
    LET keys == StoredKeys(array) IN
    \A k \in Keys, v \in Values :
        k \notin keys =>
            LET r == insert(Self, k, v) IN
            /\ r.ret = None
            /\ r.self.curr_size = curr_size + 1

\* an absent key is inserted into a slot that already holds another key
C3_Witness ==
    \E k \in Keys, v \in Values :
        /\ ~Present(array, k)
        /\ ChainLen(array, k) = 1
        /\ curr_size = 1
        /\ insert(Self, k, v).ret = None
        /\ insert(Self, k, v).self.curr_size = 2

\* C4  Removal correctness: remove(k) on a present key returns the stored
\* value (what get(k) returned), afterwards get(k) is absent, size is one
\* less and every other key keeps its value; for the head, a middle node and
\* the tail alike.
C4_Removal ==
    LET stored == Pairs(array) IN
    \A k \in Keys, v \in Values :
        <<k, v>> \in stored =>
            LET r == remove(Self, k) IN
            /\ r.ret = Some(v)
            /\ r.ret = get(Self, k)
            /\ get(r.self, k) = None
            /\ r.self.curr_size = curr_size - 1
            /\ \A kv \in stored :
                   kv[1] # k => get(r.self, kv[1]) = Some(kv[2])

\* the middle node of a chain of three is removed and two entries are left
C4_Witness ==
    \E k \in Keys :
        /\ IndexOf(array, k) = 2
        /\ ChainLen(array, k) = 3
        /\ remove(Self, k).ret # None
        /\ Cardinality(Pairs(remove(Self, k).self.array)) = 2

\* C5  Absent-key removal: remove(k) on a key not in the table returns None
\* and leaves size and every chain unchanged; so a second remove(k) right
\* after a successful one returns None and changes nothing.
C5_AbsentRemoval ==
    LET keys == StoredKeys(array) IN
    \A k \in Keys :
        /\ k \notin keys => remove(Self, k) = [self |-> Self, ret |-> None]
        /\ k \in keys =>
               LET r == remove(Self, k) IN
               remove(r.self, k) = [self |-> r.self, ret |-> None]

\* remove(k) walks a chain of two other keys and finds nothing
C5_Witness ==
    \E k \in Keys :
        /\ ~Present(array, k)
        /\ ChainLen(array, k) = 2
        /\ remove(Self, k).ret = None
        /\ remove(Self, k).self.array = array

\* C6  Collision handling: two distinct keys of one slot that have both
\* been inserted (in either order; reference holds the value last inserted
\* for each) are each retrieved with their own value, and removing either
\* returns its own value and leaves the other one retrievable unchanged; keys
\* are told apart by equality, not by hash or slot.
C6_Collision ==
    \A k1 \in Keys, k2 \in Keys :
        (/\ k1 # k2
         /\ position_of(k1) = position_of(k2)
         /\ reference[k1] # None
         /\ reference[k2] # None) =>
            LET r == remove(Self, k1) IN
            /\ get(Self, k1) = reference[k1]
            /\ get(Self, k2) = reference[k2]
            /\ r.ret = reference[k1]
            /\ get(r.self, k1) = None
            /\ get(r.self, k2) = reference[k2]

\* two keys with the same hash sit in one chain with different values, and
\* removing the head leaves the second
C6_Witness ==
    \E k1 \in Keys, k2 \in Keys :
        /\ k1 # k2
        /\ hash_key(k1) = hash_key(k2)
        /\ IndexOf(array, k1) = 1
        /\ IndexOf(array, k2) = 2
        /\ reference[k1] # None
        /\ reference[k2] # None
        /\ reference[k1] # reference[k2]
        /\ remove(Self, k1).ret = reference[k1]
        /\ get(remove(Self, k1).self, k2) = reference[k2]

\* C7  Clear: after clear(), size is 0, every slot is empty and get(k) is
\* absent for every key.
C7_Clear ==
    LET s == clear(Self) IN
    /\ s.curr_size = 0
    /\ \A i \in Slots : s.array[i] = None
    /\ \A k \in Keys : get(s, k) = None

\* clear() empties a table that holds entries in two slots
C7_Witness ==
    /\ curr_size >= 2
    /\ Cardinality({i \in Slots : array[i] # None}) = 2
    /\ \E k \in Keys : get(Self, k) # None /\ get(clear(Self), k) = None

\* C8  Size invariant: curr_size equals the number of entries over all
\* chains of all slots.
C8_SizeInvariant ==
    curr_size = EntryCount(array)

\* a table of three counted entries
C8_Witness ==
    /\ curr_size = 3
    /\ EntryCount(array) = 3

\* C9  Key uniqueness: no key occurs in more than one entry of the table.
C9_KeyUnique ==
    LET places == Places(array) IN
    \A p \in places, q \in places :
        EntryAt(array, p).key = EntryAt(array, q).key => p = q

\* three different keys share one chain
C9_Witness ==
    \E i \in Slots :
        /\ Len(ChainOf(array[i])) = 3
        /\ Cardinality(StoredKeys(array)) = 3

\* C10  Map equivalence: in every state reached by insert, get, remove and
\* clear calls, each call returns what it returns on the reference map run
\* side by side, and the stored pairs are those of the reference map.
C10_MapEquivalence ==
    /\ Pairs(array) = RefPairs
    /\ \A k \in Keys :
           /\ get(Self, k) = ref_get(reference, k)
           /\ remove(Self, k).ret = ref_remove(reference, k).ret
           /\ \A v \in Values :
                  insert(Self, k, v).ret = ref_insert(reference, k, v).ret

\* the table and the reference map both hold two pairs of one slot
C10_Witness ==
    \E k \in Keys :
        /\ ref_get(reference, k) # None
        /\ get(Self, k) = ref_get(reference, k)
        /\ ChainLen(array, k) = 2
        /\ Cardinality(RefPairs) = 2
        /\ Pairs(array) = RefPairs

\* C11  Lookup is read-only: a get(k) call, for a present or an absent key,
\* leaves curr_size and every slot's chain (entries, values, order) exactly
\* as they were.
C11_GetReadOnly ==
    [][\A k \in Keys : Get(k) => (curr_size' = curr_size /\ array' = array)]_vars

\* get finds a key behind the head of a chain and misses another key whose
\* slot is occupied
C11_Witness ==
    \E k1 \in Keys, k2 \in Keys :
        /\ IndexOf(array, k1) >= 2
        /\ get(Self, k1) # None
        /\ IndexOf(array, k2) = 0
        /\ ChainLen(array, k2) >= 1
        /\ get(Self, k2) = None

\* C12  Totality: in every reachable state insert, get, remove and clear
\* complete with a normal result for every key and value: no unwrap() meets
\* None (the slot head in update_or_link_new_val is the one unwrap a caller
\* decides; the two successor unwraps sit under an is_some test of the same
\* option, and evaluating unwrap on None is an evaluation error here), and
\* get and remove of an absent key yield None.
OptionValues == {None} \cup {Some(v) : v \in Values}

C12_Totality ==
    LET keys == StoredKeys(array) IN
    /\ ~panicked
    /\ clear(Self).curr_size = 0
    /\ \A k \in Keys :
           /\ get(Self, k) \in OptionValues
           /\ remove(Self, k).ret \in OptionValues
           /\ remove(Self, k).self.curr_size >= 0
           /\ k \notin keys => (get(Self, k) = None /\ remove(Self, k).ret = None)
           /\ \A v \in Values :
                  /\ insert(Self, k, v).panic = FALSE
                  /\ insert(Self, k, v).ret \in OptionValues

\* all three calls complete on a key that is absent from an occupied slot
\* holding a chain of two
C12_Witness ==
    \E k \in Keys, v \in Values :
        /\ ~panicked
        /\ ~Present(array, k)
        /\ ChainLen(array, k) = 2
        /\ insert(Self, k, v).panic = FALSE
        /\ insert(Self, k, v).ret = None
        /\ get(Self, k) = None
        /\ remove(Self, k).ret = None

\* C13  Construction: the table new() yields has size 0 and each of its
\* DEFAULT_MAX_SIZE slots empty, so get(k) and remove(k) return None for
\* every key on it.
C13_Construction ==
    (curr_size = HashMap_new.curr_size /\ array = HashMap_new.array) =>
        /\ curr_size = 0
        /\ DOMAIN array = Slots
        /\ Cardinality(DOMAIN array) = DEFAULT_MAX_SIZE
        /\ \A i \in Slots : array[i] = None
        /\ \A k \in Keys :
               /\ get(Self, k) = None
               /\ remove(Self, k) = [self |-> Self, ret |-> None]

\* the freshly constructed table, on which no key has been inserted
C13_Witness ==
    /\ Self = HashMap_new
    /\ reference = ref_new
    /\ Occupied(array) = {}
    /\ \A k \in Keys : get(Self, k) = None /\ remove(Self, k).ret = None

\* C14  Concrete scenario: from an empty table, insert("guimauve", 1) then
\* insert("rust", 2) give get("guimauve") = 1, get("rust") = 2 and size 2;
\* then remove("guimauve") returns 1, get("guimauve") is absent,
\* get("rust") = 2 and size is 1, whether the two keys share a slot or not.
\* Keys 1 and 2 stand for "guimauve" and "rust"; hasher ranges over every
\* placement of them.
guimauve == 1
rust == 2
AfterGuimauve == insert(HashMap_new, guimauve, 1).self
AfterRust == insert(AfterGuimauve, rust, 2).self

C14_Scenario ==
    LET r == remove(AfterRust, guimauve) IN
    /\ get(AfterGuimauve, guimauve) = Some(1)
    /\ get(AfterRust, guimauve) = Some(1)
    /\ get(AfterRust, rust) = Some(2)
    /\ AfterRust.curr_size = 2
    /\ r.ret = Some(1)
    /\ get(r.self, guimauve) = None
    /\ get(r.self, rust) = Some(2)
    /\ r.self.curr_size = 1

\* the table after the two inserts, the two keys sharing a slot with
\* different hashes, from which the removal leaves "rust" alone
C14_Witness ==
    /\ Self = AfterRust
    /\ hash_key(guimauve) # hash_key(rust)
    /\ position_of(guimauve) = position_of(rust)
    /\ remove(Self, guimauve).ret = Some(1)
    /\ Pairs(remove(Self, guimauve).self.array) = {<<rust, 2>>}

\* the same table when the two keys lie in different slots
C14_WitnessApart ==
    /\ Self = AfterRust
    /\ position_of(guimauve) # position_of(rust)
    /\ remove(Self, guimauve).ret = Some(1)
    /\ Pairs(remove(Self, guimauve).self.array) = {<<rust, 2>>}

\* C15  Placement invariant: every entry stored in the chain of slot i has
\* a key k with hash(k) mod N = i, and insert, get and remove on one key
\* address the same slot, which lies in 0..N-1: insert(k, v) puts k in slot
\* hash(k) mod N, where get(k) reads it and remove(k) takes it out.
C15_Placement ==
    /\ \A p \in Places(array) : position_of(EntryAt(array, p).key) = p[1]
    /\ \A k \in Keys :
           /\ position_of(k) \in Slots
           /\ \A v \in Values :
                  LET s == insert(Self, k, v).self IN
                  /\ IndexOf(s.array, k) >= 1
                  /\ get(s, k) = Some(v)
                  /\ remove(s, k).ret = Some(v)

\* three entries over two slots, two keys of different hashes sharing one
C15_Witness ==
    \E k1 \in Keys, k2 \in Keys :
        /\ curr_size = 3
        /\ Cardinality(Occupied(array)) = 2
        /\ hash_key(k1) # hash_key(k2)
        /\ position_of(k1) = position_of(k2)
        /\ Present(array, k1)
        /\ Present(array, k2)

\* C16  Slot isolation: insert(k, v) and remove(k) leave the chain of every
\* slot other than hash(k) mod N exactly as it was.
C16_SlotIsolation ==
    \A k \in Keys :
        LET position == position_of(k) IN
        /\ [remove(Self, k).self.array EXCEPT ![position] = array[position]] = array
        /\ \A v \in Values :
               [insert(Self, k, v).self.array EXCEPT ![position] = array[position]]
                   = array

\* a key goes into an empty slot while a different slot holds a chain of
\* two, which stays as it is
C16_Witness ==
    \E k \in Keys, k2 \in Keys, v \in Values :
        /\ array[position_of(k)] = None
        /\ position_of(k2) # position_of(k)
        /\ ChainLen(array, k2) = 2
        /\ insert(Self, k, v).self.array[position_of(k)] # None
        /\ insert(Self, k, v).self.array[position_of(k2)] = array[position_of(k2)]

\* C17  Chain shape on insert: a fresh key inserted into an occupied slot
\* becomes the last node of that slot's chain, the earlier nodes and their
\* order unchanged; inserting an existing key replaces only that entry's
\* value, its key, its position and the chain's length unchanged.
C17_InsertShape ==
    LET keys == StoredKeys(array) IN
    \A k \in Keys, v \in Values :
        LET before == ChainOf(array[position_of(k)])
            after == ChainOf(insert(Self, k, v).self.array[position_of(k)]) IN
        IF k \notin keys
        THEN after = Append(before, [key |-> k, value |-> v])
        ELSE /\ Len(after) = Len(before)
             /\ \A j \in 1..Len(before) :
                    after[j] = IF before[j].key = k
                               THEN [key |-> k, value |-> v]
                               ELSE before[j]

\* the middle node of a chain of three takes a different value and stays
\* the middle node
C17_Witness ==
    \E k \in Keys, v \in Values :
        /\ IndexOf(array, k) = 2
        /\ ChainLen(array, k) = 3
        /\ get(Self, k) # Some(v)
        /\ IndexOf(insert(Self, k, v).self.array, k) = 2
        /\ Len(ChainOf(insert(Self, k, v).self.array[position_of(k)])) = 3

\* a fresh key is appended behind a chain of two
C17_WitnessAppend ==
    \E k \in Keys, v \in Values :
        /\ IndexOf(array, k) = 0
        /\ ChainLen(array, k) = 2
        /\ IndexOf(insert(Self, k, v).self.array, k) = 3

\* C18  Chain shape on remove: after remove(k) on a present key the chain of
\* k's slot is the previous chain with the one entry for k deleted and the
\* order of the others kept: a removed head hands the slot to its successor
\* with the rest attached, or empties it; a removed later node links its
\* predecessor to its successor, or to nothing.
C18_RemoveShape ==
    LET keys == StoredKeys(array) IN
    \A k \in keys :
        LET before == ChainOf(array[position_of(k)])
            after == ChainOf(remove(Self, k).self.array[position_of(k)])
            i == IndexOf(array, k) IN
        /\ i >= 1
        /\ Len(after) = Len(before) - 1
        /\ after = SubSeq(before, 1, i - 1) \o SubSeq(before, i + 1, Len(before))
        /\ (Len(before) = 1) => remove(Self, k).self.array[position_of(k)] = None

\* the head of a chain of three is removed and its two successors stay, in
\* order
C18_Witness ==
    \E k \in Keys :
        LET before == ChainOf(array[position_of(k)])
            after == ChainOf(remove(Self, k).self.array[position_of(k)]) IN
        /\ IndexOf(array, k) = 1
        /\ Len(before) = 3
        /\ after = <<before[2], before[3]>>

\* C19  Termination of chain walks: every chain is finite and acyclic (a
\* chain is an owned list: it has a length, no more than the number of live
\* entries, and no key twice), and each insert, get and remove visits at
\* most as many nodes as the addressed chain holds, stopping at the first
\* node whose key matches.
C19_BoundedWalks ==
    /\ \A i \in Occupied(array) :
           LET c == ChainOf(array[i]) IN
           /\ Len(c) <= curr_size
           /\ \A a \in 1..Len(c), b \in 1..Len(c) : c[a].key = c[b].key => a = b
    /\ \A k \in Keys :
           LET n == ChainLen(array, k)
               i == IndexOf(array, k)
               stop == IF i >= 1 THEN i ELSE n IN
           /\ stop <= n
           /\ get_visited(Self, k) = stop
           /\ insert_visited(Self, k) = stop
           /\ remove_visited(Self, k) = stop

\* a walk stops at the head of a chain of two, and another runs through
\* both nodes without finding its key
C19_Witness ==
    \E k1 \in Keys, k2 \in Keys :
        /\ ChainLen(array, k1) = 2
        /\ IndexOf(array, k1) = 1
        /\ get_visited(Self, k1) = 1
        /\ IndexOf(array, k2) = 0
        /\ ChainLen(array, k2) = 2
        /\ get_visited(Self, k2) = 2
        /\ remove_visited(Self, k2) = 2

\* C20  Insert/remove inverse: where key k is absent, insert(k, v) followed
\* at once by remove(k) returns v from the remove and gives back the table
\* as it was before the insert: the same size and, in every slot, the same
\* chain with the same entries, values and order.
C20_InsertRemoveInverse ==
    LET keys == StoredKeys(array) IN
    \A k \in Keys \ keys, v \in Values :
        LET r == remove(insert(Self, k, v).self, k) IN
        /\ r.ret = Some(v)
        /\ r.self.curr_size = curr_size
        /\ r.self.array = array

\* an absent key is linked behind a chain of two and unlinked again
C20_Witness ==
    \E k \in Keys, v \in Values :
        /\ IndexOf(array, k) = 0
        /\ ChainLen(array, k) = 2
        /\ insert(Self, k, v).self.curr_size = 3
        /\ remove(insert(Self, k, v).self, k) = [self |-> Self, ret |-> Some(v)]

====
